---- MODULE Spec2Model ----
(***************************************************************************)
(* Backend sidecar supervision in frontend/src-tauri/src/main.rs.          *)
(*                                                                         *)
(* Three parties act on the state:                                        *)
(*   - the main thread, which runs the setup closure once and then the     *)
(*     window-event closure for every window-destroyed event;              *)
(*   - the relay task spawned by setup, which drains the sidecar's event   *)
(*     channel and prints what it receives;                                *)
(*   - the sidecar side of the channel (process and its reader threads),   *)
(*     which is an input: it may put any events on the channel, exit and   *)
(*     close the channel.                                                  *)
(*                                                                         *)
(* The order in which the framework delivers window events is not part of  *)
(* the source, so window-destroyed may arrive whenever the main thread is  *)
(* between callbacks, also before setup has run.  println!/eprintln! are   *)
(* taken to succeed.  The failures modelled are those of the supervision   *)
(* code (spawn, kill, event stream); an error returned by the framework's  *)
(* own run() is outside the model.                                         *)
(***************************************************************************)
EXTENDS Naturals, Sequences, FiniteSets, TLC

\* Bounds of the model
MaxEvents == 3        \* events the sidecar side puts on the channel besides the exit notification
MaxDestroyed == 2     \* window-destroyed events delivered

\* Option<T>: None is the empty tuple, Some(x) a one-element tuple
None == <<>>
Some(x) == <<x>>

Lines == {"a", "b"}
Codes == {None, Some(0)}

\* CommandEvent values received on rx
Ev(k, l, c) == [kind |-> k, line |-> l, code |-> c]
StdoutEv(l) == Ev("Stdout", l, None)
StderrEv(l) == Ev("Stderr", l, None)
ErrorEv == Ev("Error", "io", None)
TerminatedEv(c) == Ev("Terminated", "", c)
ChunkEvents == {StdoutEv(l) : l \in Lines} \cup {StderrEv(l) : l \in Lines}
CommandEvents == ChunkEvents \cup {ErrorEv} \cup {TerminatedEv(c) : c \in Codes}

VARIABLES
    mpc,        \* position of the main thread
    ret,        \* where the main thread returns to after the window-event closure
    lock,       \* holder of the Mutex<BackendState>: "free" or "main"
    child,      \* BackendState.child : Option<CommandChild>
    taken,      \* result of child.take() inside the window-event closure
    proc,       \* the sidecar process: "none", "running", "dying", "exited"
    chan,       \* events in flight on the channel behind rx
    closed,     \* all senders of the channel are gone
    sent,       \* every event ever put on the channel, in order
    rpc,        \* relay task: "none", "recv", "done"
    rcvd,       \* every event the relay has taken from rx, in order
    sink,       \* what has been printed, in order
    spawns,     \* processes spawned
    kills,      \* handles kill() was called on, in order
    killRes,    \* result of each kill() call, in order
    calls,      \* for every returned window-destroyed closure, where it was called from
    panicMsg    \* message of the panic that aborted the application, or ""

vars == <<mpc, ret, lock, child, taken, proc, chan, closed, sent, rpc, rcvd,
          sink, spawns, kills, killRes, calls, panicMsg>>

mainVars == <<mpc, ret, lock, child, taken, spawns, kills, killRes, calls, panicMsg>>
relayVars == <<rpc, rcvd, sink>>
chanVars == <<chan, closed, sent>>

Init ==
    /\ mpc = "init"
    /\ ret = "init"
    /\ lock = "free"
    /\ child = None
    /\ taken = None
    /\ proc = "none"
    /\ chan = <<>>
    /\ closed = FALSE
    /\ sent = <<>>
    /\ rpc = "none"
    /\ rcvd = <<>>
    /\ sink = <<>>
    /\ spawns = 0
    /\ kills = <<>>
    /\ killRes = <<>>
    /\ calls = <<>>
    /\ panicMsg = ""

----------------------------------------------------------------------------
\* setup closure

\* new_sidecar(..).expect(..).spawn().expect(..) succeeds: (rx, child)
\* the relay task is launched right after the spawn, before the handle is stored
SetupSpawnStartsRelay ==
    /\ mpc = "init"
    /\ mpc' = "spawned"
    /\ spawns' = spawns + 1
    /\ proc' = "running"
    /\ rpc' = "recv"
    /\ UNCHANGED <<ret, lock, child, taken, chan, closed, sent, rcvd, sink,
                   kills, killRes, calls, panicMsg>>

SetupSpawn ==
    /\ mpc = "init"
    /\ mpc' = "spawned"
    /\ spawns' = spawns + 1
    /\ proc' = "running"
    /\ UNCHANGED <<ret, lock, child, taken, chan, closed, sent, rpc, rcvd, sink,
                   kills, killRes, calls, panicMsg>>

\* one of the two expect() calls panics
\* the spawn result is matched instead of expect()ed: without a sidecar the
\* closure returns Ok(()) and the application runs on
SetupSpawnFailIgnored ==
    /\ mpc = "init"
    /\ mpc' = "loop"
    /\ ret' = "loop"
    /\ UNCHANGED <<lock, child, taken, proc, chan, closed, sent, rpc, rcvd, sink,
                   spawns, kills, killRes, calls, panicMsg>>

SetupSpawnFail ==
    /\ mpc = "init"
    /\ mpc' = "aborted"
    /\ \E m \in {"failed to create sidecar command", "failed to spawn backend sidecar"} :
          panicMsg' = m
    /\ UNCHANGED <<ret, lock, child, taken, proc, chan, closed, sent, rpc, rcvd, sink,
                   spawns, kills, killRes, calls>>

\* state.lock().unwrap()
SetupLock ==
    /\ mpc = "spawned"
    /\ lock = "free"
    /\ lock' = "main"
    /\ mpc' = "locked"
    /\ UNCHANGED <<ret, child, taken, proc, chan, closed, sent, rpc, rcvd, sink,
                   spawns, kills, killRes, calls, panicMsg>>

\* .child = Some(child); the guard is dropped at the end of the statement
StoredNone(h) == None

Stored(h) == Some(h)

\* the guard is bound to a name that outlives the statement and is never dropped
SetupStoreHoldsGuard ==
    /\ mpc = "locked"
    /\ child' = Stored(spawns)
    /\ mpc' = "stored"
    /\ UNCHANGED <<ret, lock, taken, proc, chan, closed, sent, rpc, rcvd, sink,
                   spawns, kills, killRes, calls, panicMsg>>

SetupStore ==
    /\ mpc = "locked"
    /\ child' = Stored(spawns)
    /\ lock' = "free"
    /\ mpc' = "stored"
    /\ UNCHANGED <<ret, taken, proc, chan, closed, sent, rpc, rcvd, sink,
                   spawns, kills, killRes, calls, panicMsg>>

\* tauri::async_runtime::spawn(async move { .. }); Ok(())
SetupSpawnRelay ==
    /\ mpc = "stored"
    /\ rpc' = "recv"
    /\ mpc' = "loop"
    /\ ret' = "loop"
    /\ UNCHANGED <<lock, child, taken, proc, chan, closed, sent, rcvd, sink,
                   spawns, kills, killRes, calls, panicMsg>>

----------------------------------------------------------------------------
\* window-event closure, WindowEvent::Destroyed

\* Option::take: <<value returned, value left in place>>
TakeKeeps(c) == <<c, c>>

Take(c) == <<c, None>>

\* the field is taken without the lock being acquired
DestroyedTakeUnlocked ==
    /\ mpc \in {"init", "loop"}
    /\ Len(calls) < MaxDestroyed
    /\ taken' = Take(child)[1]
    /\ child' = Take(child)[2]
    /\ ret' = mpc
    /\ mpc' = "taken"
    /\ UNCHANGED <<lock, proc, chan, closed, sent, rpc, rcvd, sink,
                   spawns, kills, killRes, calls, panicMsg>>

\* state.lock().unwrap().child.take(); the guard lives to the end of the if-let
DestroyedTake ==
    /\ mpc \in {"init", "loop"}
    /\ Len(calls) < MaxDestroyed
    /\ lock = "free"
    /\ lock' = "main"
    /\ taken' = Take(child)[1]
    /\ child' = Take(child)[2]
    /\ ret' = mpc
    /\ mpc' = "taken"
    /\ UNCHANGED <<proc, chan, closed, sent, rpc, rcvd, sink,
                   spawns, kills, killRes, calls, panicMsg>>

\* let _ = child.kill(): the request is issued, its result is dropped.
\* A running process dies only if the OS honours the request.
KillEffect(p, res) == IF p = "running" /\ res = "ok" THEN "dying" ELSE p

\* the handle is unwrapped instead of matched: an absent handle panics
DestroyedKillUnwrap ==
    /\ mpc = "taken"
    /\ IF taken = None
         THEN /\ panicMsg' = "called Option::unwrap() on a None value"
              /\ mpc' = "aborted"
              /\ UNCHANGED <<kills, killRes, proc>>
         ELSE /\ \E res \in {"ok", "err"} :
                    /\ killRes' = Append(killRes, res)
                    /\ proc' = KillEffect(proc, res)
              /\ kills' = Append(kills, taken[1])
              /\ mpc' = "killed"
              /\ UNCHANGED panicMsg
    /\ UNCHANGED <<ret, lock, child, taken, chan, closed, sent, rpc, rcvd, sink,
                   spawns, calls>>

\* child.kill().expect(..): a failed kill panics
DestroyedKillExpect ==
    /\ mpc = "taken"
    /\ taken # None
    /\ \E res \in {"ok", "err"} :
          /\ killRes' = Append(killRes, res)
          /\ proc' = KillEffect(proc, res)
          /\ mpc' = IF res = "err" THEN "aborted" ELSE "killed"
          /\ panicMsg' = IF res = "err" THEN "failed to kill backend sidecar" ELSE panicMsg
    /\ kills' = Append(kills, taken[1])
    /\ UNCHANGED <<ret, lock, child, taken, chan, closed, sent, rpc, rcvd, sink,
                   spawns, calls>>

DestroyedKill ==
    /\ mpc = "taken"
    /\ taken # None
    /\ \E res \in {"ok", "err"} :
          /\ killRes' = Append(killRes, res)
          /\ proc' = KillEffect(proc, res)
    /\ kills' = Append(kills, taken[1])
    /\ mpc' = "killed"
    /\ UNCHANGED <<ret, lock, child, taken, chan, closed, sent, rpc, rcvd, sink,
                   spawns, calls, panicMsg>>

\* end of the closure: the guard (and the taken handle) is dropped
\* a handle whose kill failed is put back into the state
DestroyedReturnRestore ==
    /\ \/ mpc = "killed"
       \/ mpc = "taken" /\ taken = None
    /\ lock' = "free"
    /\ taken' = None
    /\ child' = IF mpc = "killed" /\ killRes[Len(killRes)] = "err" THEN taken ELSE child
    /\ calls' = Append(calls, ret)
    /\ mpc' = ret
    /\ UNCHANGED <<ret, proc, chan, closed, sent, rpc, rcvd, sink,
                   spawns, kills, killRes, panicMsg>>

DestroyedReturn ==
    /\ \/ mpc = "killed"
       \/ mpc = "taken" /\ taken = None
    /\ lock' = "free"
    /\ taken' = None
    /\ calls' = Append(calls, ret)
    /\ mpc' = ret
    /\ UNCHANGED <<ret, child, proc, chan, closed, sent, rpc, rcvd, sink,
                   spawns, kills, killRes, panicMsg>>

----------------------------------------------------------------------------
\* relay task

\* the write each match arm performs; {:?} of an Option<i32>
DebugCodeUnwrapped(c) == IF c = None THEN "0" ELSE ToString(c[1])

DebugCode(c) == IF c = None THEN "None" ELSE "Some(" \o ToString(c[1]) \o ")"

\* the Terminated arm breaks without printing
ForwardChunksOnly(e) ==
    CASE e.kind = "Stdout" ->
           <<[arm |-> "Stdout", surface |-> "stdout", text |-> "[Backend] " \o e.line]>>
      [] e.kind = "Stderr" ->
           <<[arm |-> "Stderr", surface |-> "stderr", text |-> "[Backend Error] " \o e.line]>>
      [] OTHER -> <<>>

\* both chunk arms print with println! and the same prefix
ForwardUntagged(e) ==
    CASE e.kind \in {"Stdout", "Stderr"} ->
           <<[arm |-> e.kind, surface |-> "stdout", text |-> "[Backend] " \o e.line]>>
      [] e.kind = "Terminated" ->
           <<[arm |-> "Terminated", surface |-> "stdout",
              text |-> "[Backend] Process terminated with code: " \o DebugCode(e.code)]>>
      [] OTHER -> <<>>

\* the wildcard arm reports the event on stderr
ForwardOthers(e) ==
    CASE e.kind = "Stdout" ->
           <<[arm |-> "Stdout", surface |-> "stdout", text |-> "[Backend] " \o e.line]>>
      [] e.kind = "Stderr" ->
           <<[arm |-> "Stderr", surface |-> "stderr", text |-> "[Backend Error] " \o e.line]>>
      [] e.kind = "Terminated" ->
           <<[arm |-> "Terminated", surface |-> "stdout",
              text |-> "[Backend] Process terminated with code: " \o DebugCode(e.code)]>>
      [] OTHER ->
           <<[arm |-> "Other", surface |-> "stderr", text |-> "[Backend Error] " \o e.line]>>

Forward(e) ==
    CASE e.kind = "Stdout" ->
           <<[arm |-> "Stdout", surface |-> "stdout", text |-> "[Backend] " \o e.line]>>
      [] e.kind = "Stderr" ->
           <<[arm |-> "Stderr", surface |-> "stderr", text |-> "[Backend Error] " \o e.line]>>
      [] e.kind = "Terminated" ->
           <<[arm |-> "Terminated", surface |-> "stdout",
              text |-> "[Backend] Process terminated with code: " \o DebugCode(e.code)]>>
      [] OTHER -> <<>>

\* the arm ends with break
BreaksNever(e) == FALSE

BreaksOnError(e) == e.kind \in {"Terminated", "Error"}

Breaks(e) == e.kind = "Terminated"

\* the Terminated arm also locks the state and clears child
RelayRecvClearsChild ==
    /\ rpc = "recv"
    /\ chan # <<>>
    /\ LET e == Head(chan) IN
          /\ e.kind = "Terminated" => lock = "free"
          /\ rcvd' = Append(rcvd, e)
          /\ sink' = sink \o Forward(e)
          /\ rpc' = IF Breaks(e) THEN "done" ELSE "recv"
          /\ child' = IF e.kind = "Terminated" THEN None ELSE child
    /\ chan' = Tail(chan)
    /\ UNCHANGED <<mpc, ret, lock, taken, spawns, kills, killRes, calls, panicMsg,
                   proc, closed, sent>>

\* rx.recv().await yields Some(event)
RelayRecv ==
    /\ rpc = "recv"
    /\ chan # <<>>
    /\ LET e == Head(chan) IN
          /\ rcvd' = Append(rcvd, e)
          /\ sink' = sink \o Forward(e)
          /\ rpc' = IF Breaks(e) THEN "done" ELSE "recv"
    /\ chan' = Tail(chan)
    /\ UNCHANGED <<mainVars, proc, closed, sent>>

\* rx.recv().await yields None: the while-let loop ends
RelayEndSpins ==
    /\ rpc = "recv"
    /\ chan = <<>>
    /\ closed
    /\ UNCHANGED vars

RelayEnd ==
    /\ rpc = "recv"
    /\ chan = <<>>
    /\ closed
    /\ rpc' = "done"
    /\ UNCHANGED <<mainVars, proc, chanVars, rcvd, sink>>

----------------------------------------------------------------------------
\* sidecar side of the channel

Emit(e) ==
    /\ proc # "none"
    /\ ~closed
    /\ Len(sent) < MaxEvents
    /\ chan' = Append(chan, e)
    /\ sent' = Append(sent, e)
    /\ UNCHANGED <<mainVars, relayVars, proc, closed>>

ChildEmit == \E e \in ChunkEvents \cup {ErrorEv} : Emit(e)

\* the process ends and its exit status is reported
ChildExit ==
    /\ proc \in {"running", "dying"}
    /\ ~closed
    /\ \E c \in Codes :
          /\ chan' = Append(chan, TerminatedEv(c))
          /\ sent' = Append(sent, TerminatedEv(c))
    /\ proc' = "exited"
    /\ UNCHANGED <<mainVars, relayVars, closed>>

\* the process ends but its status cannot be collected: an error is reported instead
ChildLost ==
    /\ proc \in {"running", "dying"}
    /\ ~closed
    /\ chan' = Append(chan, ErrorEv)
    /\ sent' = Append(sent, ErrorEv)
    /\ proc' = "exited"
    /\ UNCHANGED <<mainVars, relayVars, closed>>

\* the last sender is dropped
ChanClose ==
    /\ proc = "exited"
    /\ ~closed
    /\ closed' = TRUE
    /\ UNCHANGED <<mainVars, relayVars, proc, chan, sent>>

----------------------------------------------------------------------------
Next ==
    \/ SetupSpawn
    \/ SetupSpawnFail
    \/ SetupLock
    \/ SetupStore
    \/ SetupSpawnRelay
    \/ DestroyedTake
    \/ DestroyedKill
    \/ DestroyedReturn
    \/ RelayRecv
    \/ RelayEnd
    \/ ChildEmit
    \/ ChildExit
    \/ ChildLost
    \/ ChanClose

Spec == Init /\ [][Next]_vars

\* The async runtime keeps polling the relay task; a process the OS has
\* agreed to kill ends; the senders of an ended process are dropped.
Reap == proc = "dying" /\ (ChildExit \/ ChildLost)

FairSpec ==
    /\ Spec
    /\ WF_vars(RelayRecv)
    /\ WF_vars(RelayEnd)
    /\ WF_vars(Reap)
    /\ WF_vars(ChanClose)

----------------------------------------------------------------------------
\* Properties

Range(s) == {s[i] : i \in DOMAIN s}
Count(s, x) == Cardinality({i \in DOMAIN s : s[i] = x})
Kinds(s) == {s[i].kind : i \in DOMAIN s}
InClosure == mpc \in {"taken", "killed"}

\* C1: once setup has succeeded and a window-destroyed closure called after it
\* has returned, exactly one process has been spawned and exactly one kill
\* request has been issued in total, whatever the relay and the sidecar did
\* and however many closures ran.
C1_OneSpawnOneKill ==
    "loop" \in Range(calls) => spawns = 1 /\ Len(kills) = 1

\* two closures have returned after setup, the sidecar having exited by itself
C1_Witness ==
    /\ calls = <<"loop", "loop">>
    /\ proc = "exited"
    /\ rpc = "done"
    /\ Len(kills) = 1

\* C2: a window-destroyed closure that follows an earlier one with no setup in
\* between finds child absent, issues no kill request, changes nothing of the
\* state but its own position, does not panic and can return; no handle is
\* ever the target of more than one kill request.
C2_SecondShutdownNoOp ==
    [][ /\ (mpc \in Range(calls) /\ mpc' = "taken") =>
              /\ child = None
              /\ taken' = None
              /\ child' = None
              /\ kills' = kills
              /\ killRes' = killRes
              /\ proc' = proc
        /\ (InClosure /\ ret \in Range(calls)) =>
              /\ mpc = "taken"
              /\ taken = None
              /\ child' = None
              /\ kills' = kills
              /\ killRes' = killRes
              /\ panicMsg' = ""
              /\ mpc' \in {"taken", ret}
        /\ \A h \in Range(kills') : Count(kills', h) <= 1
      ]_vars

\* a second closure after setup has returned, the first one having killed
C2_Witness ==
    /\ calls = <<"loop", "loop">>
    /\ kills = <<1>>
    /\ mpc = "loop"
    /\ child = None

\* C3: the window-destroyed closure called while child is absent (setup has
\* not run, or has not stored the handle) takes nothing, issues no kill
\* request, leaves child absent and does not panic.
C3_ShutdownWithoutHandle ==
    [][ /\ (~InClosure /\ mpc' = "taken" /\ child = None) =>
              /\ taken' = None
              /\ child' = None
              /\ kills' = kills
        /\ (mpc = "taken" /\ taken = None) =>
              /\ child' = child
              /\ kills' = kills
              /\ killRes' = killRes
              /\ proc' \in {proc, "exited"}
              /\ panicMsg' = ""
              /\ mpc' \in {"taken", ret}
      ]_vars

\* a closure has returned before setup ran
C3_Witness ==
    /\ calls = <<"init">>
    /\ spawns = 0
    /\ mpc = "init"
    /\ child = None
    /\ kills = <<>>
    /\ panicMsg = ""

\* C4: when the closure runs while the relay observes the sidecar's own exit,
\* at most one kill request is issued, nothing panics, and once the closure
\* has returned and the relay has ended child is absent.
C4_ShutdownRacesTermination ==
    (spawns = 1 /\ "Terminated" \in Kinds(sent)) =>
        /\ Len(kills) <= 1
        /\ panicMsg = "" /\ mpc # "aborted"
        /\ ("loop" \in Range(calls) /\ mpc = "loop" /\ rpc = "done") => child = None

\* the closure killed a process that had already exited; the relay has ended
C4_Witness ==
    /\ calls = <<"loop">>
    /\ mpc = "loop"
    /\ killRes = <<"err">>
    /\ proc = "exited"
    /\ rpc = "done"
    /\ "Terminated" \in Kinds(rcvd)
    /\ child = None

SinkOf(a) == SelectSeq(sink, LAMBDA w : w.arm = a)
RcvdOf(k) == SelectSeq(rcvd, LAMBDA e : e.kind = k)
IsPrefix(s, t) == Len(s) <= Len(t) /\ \A i \in DOMAIN s : s[i] = t[i]
TerminatedLine(c) ==
    [arm |-> "Terminated", surface |-> "stdout",
     text |-> IF c = None THEN "[Backend] Process terminated with code: None"
                          ELSE "[Backend] Process terminated with code: Some(0)"]

\* C6: the relay prints in the order of the channel: what it has received is
\* a prefix of what was sent, the stdout lines printed are the stdout chunks
\* received, in order, likewise for stderr, and a Terminated line is the last
\* line printed.  Stdout a, Stdout b, exit 0 gives exactly those three lines.
C6_OrderPreserved ==
    /\ IsPrefix(rcvd, sent)
    /\ Len(SinkOf("Stdout")) = Len(RcvdOf("Stdout"))
    /\ \A i \in DOMAIN SinkOf("Stdout") :
          /\ SinkOf("Stdout")[i].text = "[Backend] " \o RcvdOf("Stdout")[i].line
          /\ SinkOf("Stdout")[i].surface = "stdout"
    /\ Len(SinkOf("Stderr")) = Len(RcvdOf("Stderr"))
    /\ \A i \in DOMAIN SinkOf("Stderr") :
          /\ SinkOf("Stderr")[i].text = "[Backend Error] " \o RcvdOf("Stderr")[i].line
          /\ SinkOf("Stderr")[i].surface = "stderr"
    /\ \A i \in DOMAIN sink : sink[i].arm = "Terminated" => i = Len(sink)
    /\ (rpc = "done" /\ sent = <<StdoutEv("a"), StdoutEv("b"), TerminatedEv(Some(0))>>) =>
          sink = <<[arm |-> "Stdout", surface |-> "stdout", text |-> "[Backend] a"],
                   [arm |-> "Stdout", surface |-> "stdout", text |-> "[Backend] b"],
                   TerminatedLine(Some(0))>>

\* stdout a, b, then exit 0, all relayed
C6_Witness ==
    /\ rpc = "done"
    /\ sent = <<StdoutEv("a"), StdoutEv("b"), TerminatedEv(Some(0))>>
    /\ Len(sink) = 3

\* C7: once the relay has received Terminated it has printed exactly one
\* Terminated line, carrying the received code, as its last line, and has
\* ended; an ended relay never runs again: it receives and prints nothing
\* more, whatever is still queued on the channel.
C7_TerminatedEndsRelay ==
    /\ []("Terminated" \in Kinds(rcvd) =>
            /\ rpc = "done"
            /\ rcvd[Len(rcvd)].kind = "Terminated"
            /\ Len(RcvdOf("Terminated")) = 1
            /\ Len(SinkOf("Terminated")) = 1
            /\ sink[Len(sink)] = TerminatedLine(rcvd[Len(rcvd)].code))
    /\ [][rpc = "done" => (rpc' = "done" /\ rcvd' = rcvd /\ sink' = sink)]_vars

\* the relay ended on Terminated while later events stay queued on the channel
C7_Witness ==
    /\ rpc = "done"
    /\ "Terminated" \in Kinds(rcvd)
    /\ chan # <<>>
    /\ closed

\* C8: when the exit notification is the first event of the channel (the
\* sidecar was killed before any output), the relay prints no stdout or
\* stderr line, and once it has ended it has printed exactly the one
\* Terminated line for the reported code.
C8_KilledBeforeOutput ==
    (sent # <<>> /\ sent[1].kind = "Terminated") =>
        /\ SinkOf("Stdout") = <<>>
        /\ SinkOf("Stderr") = <<>>
        /\ rpc = "done" => sink = <<TerminatedLine(sent[1].code)>>
        /\ rpc # "done" => sink = <<>>

\* killed from outside (no kill request of ours), no exit code, relay ended
C8_Witness ==
    /\ sent # <<>>
    /\ sent[1] = TerminatedEv(None)
    /\ kills = <<>>
    /\ rpc = "done"
    /\ sink = <<TerminatedLine(None)>>

\* C9 as stated: an error event ends the relay: it is the last event the
\* relay receives and the relay has ended after it; nothing panics.
C9_Original ==
    /\ \A i \in DOMAIN rcvd :
          rcvd[i].kind = "Error" => (i = Len(rcvd) /\ rpc = "done")
    /\ spawns = 1 => panicMsg = ""

\* C9 amended: an error event is dropped, prints nothing and leaves the relay
\* receiving; the relay ends without a Terminated event only when the channel
\* is closed and drained, printing nothing for it; once the channel is closed
\* the relay does end; nothing panics.
C9_StreamErrorAbsorbed ==
    /\ [][(rcvd' # rcvd /\ rcvd'[Len(rcvd')].kind = "Error") =>
             (sink' = sink /\ rpc' = "recv" /\ panicMsg' = "")]_vars
    /\ [][(rpc = "recv" /\ rpc' = "done" /\ rcvd' = rcvd) =>
             (closed /\ chan = <<>> /\ sink' = sink /\ panicMsg' = "")]_vars
    /\ []((rpc = "done" /\ "Terminated" \notin Kinds(rcvd)) =>
             (closed /\ SinkOf("Terminated") = <<>>))
    /\ ((closed /\ rpc = "recv") ~> rpc = "done")

\* an error was received, a later stdout chunk was printed, and the relay
\* ended on the closed channel without any Terminated event
C9_Witness ==
    /\ rpc = "done"
    /\ "Terminated" \notin Kinds(rcvd)
    /\ \E i, j \in DOMAIN rcvd :
          i < j /\ rcvd[i].kind = "Error" /\ rcvd[j].kind = "Stdout"
    /\ Len(SinkOf("Stdout")) >= 1

\* C10: once the closure's kill request has been honoured for a live
\* process, the event stream ends (Terminated is sent or the channel is
\* closed) and the relay task ends.
C10_ShutdownCancelsRelay ==
    proc = "dying" ~> (rpc = "done" /\ (closed \/ "Terminated" \in Kinds(sent)))

\* the closure has returned, the process is dying, the relay is still running
C10_Witness ==
    /\ proc = "dying"
    /\ mpc = "loop"
    /\ calls = <<"loop">>
    /\ rpc = "recv"
    /\ chan # <<>>

\* C11: the window-destroyed closure never waits: whenever it may be called
\* the lock is free, so it starts at once, and once started each of its steps
\* is enabled whatever the sidecar and the relay do or fail to do; the lock is
\* held only by the main thread, never by the relay.
C11_ShutdownNeverWaits ==
    /\ lock = "main" => mpc \in {"locked", "taken", "killed"}
    /\ lock = "free" => mpc \notin {"locked", "taken", "killed"}
    /\ (mpc \in {"init", "loop"} /\ Len(calls) < MaxDestroyed) => ENABLED DestroyedTake
    /\ (mpc = "taken" /\ taken # None) => ENABLED DestroyedKill
    /\ (mpc = "taken" /\ taken = None) => ENABLED DestroyedReturn
    /\ mpc = "killed" => ENABLED DestroyedReturn

\* the closure has killed and returned while the process is still there, no
\* event was ever sent and the relay is still waiting for its first event
C11_Witness ==
    /\ calls = <<"loop">>
    /\ mpc = "loop"
    /\ kills = <<1>>
    /\ proc \in {"running", "dying"}
    /\ sent = <<>>
    /\ rcvd = <<>>
    /\ rpc = "recv"

\* C12: a kill() that fails is absorbed: the closure does not panic, the step
\* after the failed kill is its return, and child is absent afterwards.
C12_KillFailureAbsorbed ==
    /\ []((killRes # <<>> /\ killRes[Len(killRes)] = "err") =>
            /\ panicMsg = ""
            /\ mpc # "aborted"
            /\ child = None)
    /\ [][(mpc = "killed" /\ killRes[Len(killRes)] = "err" /\ mpc' # mpc) =>
             (mpc' = ret /\ calls' = Append(calls, ret) /\ lock' = "free"
                /\ child' = None /\ panicMsg' = "")]_vars

\* the OS refused the kill of a running process; the closure returned anyway
C12_Witness ==
    /\ killRes = <<"err">>
    /\ proc = "running"
    /\ calls = <<"loop">>
    /\ mpc = "loop"
    /\ child = None
    /\ panicMsg = ""

SpawnPanics == {"failed to create sidecar command", "failed to spawn backend sidecar"}

C14_ChildAccessUnderLock ==
    /\ [][(child' # child \/ (taken' # taken /\ taken' # None)) =>
             /\ lock = "main" \/ lock' = "main"
             /\ mpc' # mpc
             /\ UNCHANGED <<relayVars, chanVars, proc>>]_vars
    /\ [][(lock = "free" /\ lock' = "free") => UNCHANGED <<child, taken>>]_vars
    /\ [][(lock = "main" /\ mpc' = mpc) => UNCHANGED <<child, taken, lock>>]_vars

\* the closure holds the lock and the handle while the relay has an event to take
C14_Witness ==
    /\ mpc = "taken"
    /\ lock = "main"
    /\ taken = Some(1)
    /\ child = None
    /\ rpc = "recv"
    /\ chan # <<>>

ChunkKinds == {"Stdout", "Stderr"}
RcvdChunks == SelectSeq(rcvd, LAMBDA e : e.kind \in ChunkKinds)
SinkChunks == SelectSeq(sink, LAMBDA w : w.arm # "Terminated")
ChunkLine(e) ==
    IF e.kind = "Stdout"
      THEN [arm |-> "Stdout", surface |-> "stdout", text |-> "[Backend] " \o e.line]
      ELSE [arm |-> "Stderr", surface |-> "stderr", text |-> "[Backend Error] " \o e.line]

\* C16: the lines printed for chunks are, one for one and in order, the
\* chunks the relay has received: each received chunk has exactly one line,
\* stdout chunks on stdout with the stdout prefix, stderr chunks on stderr
\* with the stderr prefix, carrying the chunk's text; lines of different
\* chunks differ, and nothing else is printed but the Terminated line.
C16_ChunksForwardedOnce ==
    /\ Len(SinkChunks) = Len(RcvdChunks)
    /\ \A i \in DOMAIN SinkChunks : SinkChunks[i] = ChunkLine(RcvdChunks[i])
    /\ \A i, j \in DOMAIN RcvdChunks :
          RcvdChunks[i] # RcvdChunks[j] =>
             [surface |-> SinkChunks[i].surface, text |-> SinkChunks[i].text]
               # [surface |-> SinkChunks[j].surface, text |-> SinkChunks[j].text]
    /\ Len(sink) = Len(RcvdChunks) + Len(RcvdOf("Terminated"))

\* the same text came on stdout, on stderr and on stdout again; three lines
C16_Witness ==
    /\ rcvd = <<StdoutEv("a"), StderrEv("a"), StdoutEv("a")>>
    /\ Len(sink) = 3
    /\ sink[1] = sink[3]
    /\ sink[1].surface = "stdout"
    /\ sink[2].surface = "stderr"

HandleStored == child = Some(1) \/ taken = Some(1) \/ kills # <<>>

\* C17: the relay task is launched by the last step of a successful setup,
\* when the handle is already stored, and only there: it is launched once,
\* it exists once setup has returned, and while the handle has not been
\* stored there is no relay and nothing has been received or printed.
C17_StoreThenOneRelay ==
    /\ [](rpc # "none" => (spawns = 1 /\ HandleStored))
    /\ [](~HandleStored => (rpc = "none" /\ rcvd = <<>> /\ sink = <<>>))
    /\ []((mpc = "loop" \/ ret = "loop") => rpc # "none")
    /\ [][(rpc' # rpc /\ rpc' = "recv") =>
             (rpc = "none" /\ mpc = "stored" /\ mpc' = "loop" /\ child = Some(spawns))]_vars
    /\ [][rpc # "none" => rpc' # "none"]_vars

\* setup has returned, the handle is stored and the relay has printed a line
C17_Witness ==
    /\ mpc = "loop"
    /\ calls = <<>>
    /\ child = Some(1)
    /\ rpc = "recv"
    /\ Len(sink) = 2

RelayStep == rcvd' # rcvd \/ sink' # sink \/ (rpc = "recv" /\ rpc' = "done")

\* C18: a step of the relay (receiving and printing an event, or ending)
\* changes nothing of the main thread's state: not the lock, not child, not
\* the taken handle, not the kill requests, and not the process; child
\* becomes present only by setup's store and absent only by the closure's
\* take, and a kill request is added only by the closure's kill step.
C18_RelayFrame ==
    /\ [][RelayStep => UNCHANGED <<mainVars, proc, closed, sent>>]_vars
    /\ [][(child = None /\ child' # None) =>
             (mpc = "locked" /\ mpc' = "stored" /\ child' = Some(spawns))]_vars
    /\ [][(child # None /\ child' = None) =>
             (mpc \in {"init", "loop"} /\ mpc' = "taken" /\ taken' = child)]_vars
    /\ [][(kills' # kills \/ killRes' # killRes) =>
             (mpc = "taken" /\ mpc' = "killed" /\ kills' = Append(kills, taken[1])
                /\ UNCHANGED relayVars)]_vars

\* the relay has run to its end over a closed channel; the handle was never
\* touched and nothing was killed
C18_Witness ==
    /\ rpc = "done"
    /\ closed
    /\ Len(rcvd) >= 2
    /\ child = Some(1)
    /\ lock = "free"
    /\ kills = <<>>
    /\ calls = <<>>

OtherKinds == {"Error"}
Printed == SelectSeq(rcvd, LAMBDA e : e.kind \notin OtherKinds)

\* C19: an event that is neither Stdout, Stderr nor Terminated leaves no
\* line: the lines printed are exactly one per other received event; it does
\* not end the relay: a relay that has ended has received Terminated last or
\* found the channel closed and empty, and a running relay with an event
\* queued can take it, also right after such an event.
C19_OtherEventsDiscarded ==
    /\ Len(sink) = Len(Printed)
    /\ \A i \in DOMAIN sink : sink[i].arm = Printed[i].kind
    /\ rpc = "done" =>
          \/ rcvd # <<>> /\ rcvd[Len(rcvd)].kind = "Terminated"
          \/ closed /\ chan = <<>>
    /\ (rcvd # <<>> /\ rcvd[Len(rcvd)].kind \in OtherKinds /\ ~(closed /\ chan = <<>>)) =>
          rpc = "recv"
    /\ (rpc = "recv" /\ chan # <<>>) => ENABLED RelayRecv

\* an error came first, then a chunk and the exit: two lines, relay ended on Terminated
C19_Witness ==
    /\ rcvd = <<ErrorEv, StdoutEv("b"), TerminatedEv(Some(0))>>
    /\ rpc = "done"
    /\ Len(sink) = 2
    /\ sink[1].text = "[Backend] b"
    /\ ~closed

TypeOK ==
    /\ mpc \in {"init", "spawned", "locked", "stored", "loop", "taken", "killed", "aborted"}
    /\ ret \in {"init", "loop"}
    /\ lock \in {"free", "main"}
    /\ lock = "main" <=> mpc \in {"locked", "taken", "killed"}
    /\ child \in {None, Some(1)}
    /\ taken \in {None, Some(1)}
    /\ proc \in {"none", "running", "dying", "exited"}
    /\ rpc \in {"none", "recv", "done"}
    /\ spawns \in 0..1
    /\ closed \in BOOLEAN
    /\ \A i \in DOMAIN sent : sent[i] \in CommandEvents
    /\ rpc # "done" => sent = rcvd \o chan
    /\ Len(kills) = Len(killRes)
    /\ panicMsg # "" <=> mpc = "aborted"
====
